---------------------------- MODULE Spec2Model ----------------------------
(***************************************************************************)
(* A model of the causal-effect estimation engine                          *)
(* (backend/causal_engine.py) and of the placebo validator (validation.py) *)
(* of the repository.                                                      *)
(*                                                                         *)
(* The feature panel (user_features.parquet) is a bag of user             *)
(* trajectories; the two scripts are run step by step, in any order, and   *)
(* write their parquet tables.  Every numeric column of the code is a      *)
(* float64; the model computes the same expressions over exact rationals   *)
(* (unbounded integers held as digit sequences), so an equality of the     *)
(* model is the equality of the real-number values the floats approximate. *)
(* std() is only ever read squared (causal_engine.py:100-101), and sqrt()  *)
(* only inside z = att/sqrt(var), so a standard deviation is held as its   *)
(* square and z as its sign and its square.                                *)
(***************************************************************************)
EXTENDS Integers, Sequences, FiniteSets, TLC

(***************************************************************************)
(* Exact arithmetic.  A magnitude is a little-endian sequence of digits in *)
(* base Base without leading zeros (<<>> is 0); an integer is a magnitude  *)
(* with a sign; a rational is an integer over a positive magnitude.        *)
(***************************************************************************)
Base == 10000

\* a nullable value is Null or Some(v)
Null == <<>>
Some(v) == <<v>>

RECURSIVE MagOf(_)
MagOf(n) == IF n = 0 THEN <<>> ELSE <<n % Base>> \o MagOf(n \div Base)

\* the digit of a at position i, 0 beyond its length
MagDigit(a, i) == IF i <= Len(a) THEN a[i] ELSE 0

MagMaxLen(a, b) == IF Len(a) < Len(b) THEN Len(b) ELSE Len(a)

\* a without its leading zeros
MagTrim(a) ==
    IF a = <<>> THEN a
    ELSE IF a[Len(a)] # 0 THEN a
    ELSE IF \A i \in DOMAIN a : a[i] = 0 THEN <<>>
    ELSE SubSeq(a, 1, CHOOSE i \in DOMAIN a :
                          a[i] # 0 /\ \A k \in (i + 1)..Len(a) : a[k] = 0)

\* the carry out of position i of the digit sums s: that of the highest
\* position up to i whose sum is not Base - 1
MagCarry(s, i) ==
    IF i = 0 THEN 0
    ELSE IF s[i] # Base - 1 THEN (IF s[i] >= Base THEN 1 ELSE 0)
    ELSE IF \E j \in 1..i : s[j] >= Base
                            /\ \A k \in (j + 1)..i : s[k] = Base - 1
         THEN 1 ELSE 0

\* the value of a magnitude of at most two digits
MagSmall(a) == MagDigit(a, 1) + Base * MagDigit(a, 2)

MagAdd(a, b) ==
    LET n == MagMaxLen(a, b)
        s == [i \in 1..n |-> MagDigit(a, i) + MagDigit(b, i)]
    IN  IF n <= 2 THEN MagOf(MagSmall(a) + MagSmall(b))
        ELSE
        MagTrim([i \in 1..(n + 1) |->
                    IF i <= n THEN (s[i] + MagCarry(s, i - 1)) % Base
                    ELSE MagCarry(s, n)])

\* the borrow out of position i of the digit differences d: that of the
\* highest position up to i whose difference is not 0
MagBorrow(d, i) ==
    IF i = 0 THEN 0
    ELSE IF d[i] # 0 THEN (IF d[i] < 0 THEN 1 ELSE 0)
    ELSE IF \E j \in 1..i : d[j] < 0 /\ \A k \in (j + 1)..i : d[k] = 0
         THEN 1 ELSE 0

\* a - b for magnitudes with a >= b
MagSub(a, b) ==
    LET d == [i \in 1..Len(a) |-> a[i] - MagDigit(b, i)]
    IN  MagTrim([i \in 1..Len(a) |->
                    (d[i] - MagBorrow(d, i - 1) + Base) % Base])

\* -1, 0 or 1 as a < b, a = b, a > b
MagCmp(a, b) ==
    IF Len(a) < Len(b) THEN -1
    ELSE IF Len(a) > Len(b) THEN 1
    ELSE IF a = b THEN 0
    ELSE LET i == CHOOSE j \in DOMAIN a :
                      a[j] # b[j] /\ \A k \in (j + 1)..Len(a) : a[k] = b[k]
         IN  IF a[i] < b[i] THEN -1 ELSE 1

\* a times the digit d: the low and the high halves of the digit products
MagMulD(a, d) ==
    IF Len(a) = 1 THEN MagOf(a[1] * d)
    ELSE
    MagAdd([i \in 1..Len(a) |-> (a[i] * d) % Base],
           [i \in 1..(Len(a) + 1) |->
               IF i = 1 THEN 0 ELSE (a[i - 1] * d) \div Base])

RECURSIVE MagSumRange(_, _, _)
MagSumRange(s, lo, hi) ==
    IF lo > hi THEN <<>>
    ELSE IF lo = hi THEN s[lo]
    ELSE LET m == (lo + hi) \div 2
         IN  MagAdd(MagSumRange(s, lo, m), MagSumRange(s, m + 1, hi))

MagSumSeq(s) == MagSumRange(s, 1, Len(s))

\* the sum of the shifted products of a with the digits of b
MagMul(a, b) ==
    IF a = <<>> \/ b = <<>> THEN <<>>
    ELSE IF b = <<1>> THEN a
    ELSE IF a = <<1>> THEN b
    ELSE IF Len(b) = 1 THEN MagMulD(a, b[1])
    ELSE IF Len(a) = 1 THEN MagMulD(b, a[1])
    ELSE MagSumSeq([k \in 1..Len(b) |->
                       [i \in 1..(k - 1) |-> 0] \o MagMulD(a, b[k])])

IntOf(n) == [neg |-> n < 0, mag |-> MagOf(IF n < 0 THEN -n ELSE n)]

INeg(a) == IF a.mag = <<>> THEN a ELSE [neg |-> ~a.neg, mag |-> a.mag]

IAdd(a, b) ==
    IF a.neg = b.neg THEN [neg |-> a.neg, mag |-> MagAdd(a.mag, b.mag)]
    ELSE LET c == MagCmp(a.mag, b.mag)
         IN  IF c = 0 THEN [neg |-> FALSE, mag |-> <<>>]
             ELSE IF c > 0 THEN [neg |-> a.neg, mag |-> MagSub(a.mag, b.mag)]
             ELSE [neg |-> b.neg, mag |-> MagSub(b.mag, a.mag)]

IMulMag(a, m) ==
    LET p == MagMul(a.mag, m)
    IN  [neg |-> a.neg /\ p # <<>>, mag |-> p]

ISign(a) == IF a.mag = <<>> THEN 0 ELSE IF a.neg THEN -1 ELSE 1

ICmp(a, b) == ISign(IAdd(a, INeg(b)))

(***************************************************************************)
(* Rationals [num, den], den > 0, not reduced: two rationals are compared  *)
(* by REq / RCmp, never by =.                                              *)
(***************************************************************************)
RatOf(n) == [num |-> IntOf(n), den |-> <<1>>]

Frac(n, d) == [num |-> IntOf(n), den |-> MagOf(d)]

RZero == RatOf(0)

RNeg(a) == [num |-> INeg(a.num), den |-> a.den]

RAdd(a, b) ==
    IF a.den = b.den THEN [num |-> IAdd(a.num, b.num), den |-> a.den]
    ELSE [num |-> IAdd(IMulMag(a.num, b.den), IMulMag(b.num, a.den)),
          den |-> MagMul(a.den, b.den)]

RSub(a, b) == RAdd(a, RNeg(b))

RMul(a, b) ==
    [num |-> [neg |-> (a.num.neg # b.num.neg)
                        /\ a.num.mag # <<>> /\ b.num.mag # <<>>,
              mag |-> MagMul(a.num.mag, b.num.mag)],
     den |-> MagMul(a.den, b.den)]

\* a / b for b # 0
RDiv(a, b) ==
    [num |-> [neg |-> (a.num.neg # b.num.neg) /\ a.num.mag # <<>>,
              mag |-> MagMul(a.num.mag, b.den)],
     den |-> MagMul(a.den, b.num.mag)]

RSign(a) == ISign(a.num)

RAbs(a) == [num |-> [neg |-> FALSE, mag |-> a.num.mag], den |-> a.den]

RCmp(a, b) ==
    IF a.den = b.den THEN ICmp(a.num, b.num)
    ELSE ICmp(IMulMag(a.num, b.den), IMulMag(b.num, a.den))

REq(a, b) == RCmp(a, b) = 0
RLt(a, b) == RCmp(a, b) < 0
RLe(a, b) == RCmp(a, b) <= 0


(***************************************************************************)
(* The panel.  user_features.parquet holds one row per (user, submission). *)
(* Users with the same history yield the same rows in every per-user       *)
(* window and every group, so the file is held as a sequence of cohorts    *)
(* [events, users]: `users` handles that each have the rows `events`, in   *)
(* file order.  An event is [time, task, rating, acc, diff]:               *)
(*   rating  rating_at_submission, a Float64, in units of 1/RatingDen;     *)
(*   acc     roll_acc_20 in units of 1/AccDen, nullable;                   *)
(*   diff    roll_ok_diff_20: [kind |-> "num", v |-> points], or of kind   *)
(*           "nan", "inf" or "null".                                       *)
(* The timestamps of one user are distinct.                                *)
(***************************************************************************)
RatingDen == 2
AccDen == 100

VARIABLES
    features,        \* user_features.parquet
    columns,         \* the names of the columns user_features.parquet has
    round_mode,      \* how the build's Expr.round breaks a tie
    join_nulls,      \* whether the build's join matches null keys
    pc,              \* position of run_pipeline
    baseline_stats,  \* the rows of compute_causal_effects' frame baseline_stats
    treatment_stats, \* the rows of its frame treatment_stats
    effect_df,       \* the rows of its frame effect_df
    final_effects,   \* run_pipeline's collected per-task frame, with p-values
    significant_effects,  \* run_pipeline's filtered, sorted frame
    att_file,        \* causal_att_effects.parquet
    cohort_file,     \* cohort_examples.parquet
    detailed_file,   \* causal_att_effects_detailed.parquet
    ppc,             \* position of run_placebo_test
    res,             \* run_placebo_test's collected frame
    bias_file,       \* placebo_selection_bias.parquet
    error,           \* the exception that ended run_pipeline, if any
    perror           \* the exception that ended run_placebo_test, if any

vars == <<features, columns, round_mode, join_nulls, pc, baseline_stats, treatment_stats,
          effect_df, final_effects, significant_effects, att_file,
          cohort_file, detailed_file, ppc, res, bias_file, error, perror>>

(***************************************************************************)
(* Sequence helpers.  The sums are taken by halves; the terms are exact,   *)
(* so the order of the additions does not change the value.                *)
(***************************************************************************)
RECURSIVE SumRange(_, _, _)
SumRange(s, lo, hi) ==
    IF lo > hi THEN 0
    ELSE IF lo = hi THEN s[lo]
    ELSE LET m == (lo + hi) \div 2
         IN  SumRange(s, lo, m) + SumRange(s, m + 1, hi)

SumSeq(s) == SumRange(s, 1, Len(s))

RECURSIVE RSumRange(_, _, _)
RSumRange(s, lo, hi) ==
    IF lo > hi THEN RZero
    ELSE IF lo = hi THEN s[lo]
    ELSE LET m == (lo + hi) \div 2
         IN  RAdd(RSumRange(s, lo, m), RSumRange(s, m + 1, hi))

RSumSeq(s) == RSumRange(s, 1, Len(s))

RECURSIVE FlattenRange(_, _, _)
FlattenRange(ss, lo, hi) ==
    IF lo > hi THEN <<>>
    ELSE IF lo = hi THEN ss[lo]
    ELSE LET m == (lo + hi) \div 2
         IN  FlattenRange(ss, lo, m) \o FlattenRange(ss, m + 1, hi)

Flatten(ss) == FlattenRange(ss, 1, Len(ss))

RECURSIVE SetToSeq(_)
SetToSeq(S) ==
    IF S = {} THEN <<>>
    ELSE LET x == CHOOSE y \in S : TRUE IN <<x>> \o SetToSeq(S \ {x})

Range(s) == {s[i] : i \in DOMAIN s}

\* lf.sort([COL_HANDLE, COL_TIMESTAMP]): the events of one user, by time;
\* the k-th is the one with k events not later than it
SortByTime(evs) ==
    LET n == Len(evs)
        rank == SubSeq([j \in 1..n |->
                           Cardinality({m \in 1..n : evs[m].time <= evs[j].time})],
                       1, n)
    IN  SubSeq([k \in 1..n |-> evs[CHOOSE j \in 1..n : rank[j] = k]], 1, n)

(***************************************************************************)
(* 1. Outcome: rating gain after 20 submissions of the same user.          *)
(***************************************************************************)
Horizon == 20

\* the shift one row short
FutureRatingShort(sorted, i) ==
    IF i + Horizon - 1 <= Len(sorted) THEN Some(sorted[i + Horizon - 1].rating)
    ELSE Null

\* pl.col(rating).shift(-20).over(handle): the rating 20 rows later, or null
FutureRating(sorted, i) ==
    IF i + Horizon <= Len(sorted) THEN Some(sorted[i + Horizon].rating)
    ELSE Null

\* the rows of one cohort with rating_gain_20 and improved_20, the rows whose
\* gain is null filtered out; a row stands for `n` rows, one per user
ForwardRows(c, cohort) ==
    LET sorted == SortByTime(cohort.events)
        row(i) ==
            LET e == sorted[i]
                gain == FutureRating(sorted, i)[1] - e.rating
            IN  [c |-> c, i |-> i, n |-> cohort.users, task |-> e.task,
                 rating |-> e.rating, acc |-> e.acc, diff |-> e.diff,
                 gain |-> gain, improved |-> IF gain > 0 THEN 1 ELSE 0]
        keep == SelectSeq([i \in 1..Len(sorted) |-> i],
                          LAMBDA i : FutureRating(sorted, i) # Null)
    IN  [k \in 1..Len(keep) |-> row(keep[k])]

ForwardOutcome(feat) ==
    Flatten([c \in 1..Len(feat) |-> ForwardRows(c, feat[c])])

(***************************************************************************)
(* 2. State buckets (coarsened matching).                                  *)
(***************************************************************************)
\* floor(n / d) for d > 0
FloorDiv(n, d) == IF n >= 0 THEN n \div d ELSE -((-n + d - 1) \div d)

\* Expr.round(0) of n / d, d > 0: the nearest integer; a tie goes to the even
\* neighbour or away from zero, as the build's polars does
RoundDiv(n, d, mode) ==
    LET f == FloorDiv(n, d)
        r2 == 2 * (n - f * d)
    IN  IF r2 < d THEN f
        ELSE IF r2 > d THEN f + 1
        ELSE IF mode = "half_even" THEN (IF f % 2 = 0 THEN f ELSE f + 1)
        ELSE (IF n >= 0 THEN f + 1 ELSE f)

\* the rating bucket taken by truncation instead of rounding
BinRatingTruncated(r, mode) == Some(FloorDiv(r.rating, 100 * RatingDen))

\* (rating / 100).round(0).cast(Int32)
BinRating(r, mode) == Some(RoundDiv(r.rating, 100 * RatingDen, mode))

\* (roll_acc_20 * 10).round(0).cast(Int32); null stays null
BinAcc(r, mode) ==
    IF r.acc = Null THEN Null ELSE Some(RoundDiv(r.acc[1] * 10, AccDen, mode))

\* when(is_infinite).then(0.0).otherwise(fill_nan(0.0)) / 200, rounded;
\* a null is neither infinite nor NaN and stays null
BinDiff(r, mode) ==
    IF r.diff.kind = "null" THEN Null
    ELSE IF r.diff.kind = "inf" THEN Some(0)
    ELSE IF r.diff.kind = "nan" THEN Some(0)
    ELSE Some(RoundDiv(r.diff.v, 200, mode))

ForwardKey(r, mode) == <<BinRating(r, mode), BinAcc(r, mode), BinDiff(r, mode)>>

\* the frame lf of compute_causal_effects after step 2
ForwardFrame(feat, mode) ==
    LET rows == ForwardOutcome(feat)
    IN  [k \in 1..Len(rows) |->
            [c |-> rows[k].c, i |-> rows[k].i, n |-> rows[k].n,
             task |-> rows[k].task, gain |-> rows[k].gain,
             improved |-> rows[k].improved, key |-> ForwardKey(rows[k], mode)]]

(***************************************************************************)
(* 3, 4. Group statistics.  `rows` is the non-empty sequence of the rows   *)
(* of one group; the column aggregated is the gain (rating_gain_20 or      *)
(* placebo_gain_20, in units of 1/RatingDen) or the 0/1 indicator          *)
(* improved.                                                               *)
(***************************************************************************)
\* .count(): the number of rows of the group
GroupCount(rows) == SumSeq([k \in 1..Len(rows) |-> rows[k].n])

GroupSum(rows) == SumSeq([k \in 1..Len(rows) |-> rows[k].n * rows[k].gain])

Abs(n) == IF n < 0 THEN -n ELSE n

GroupSumSq(rows) ==
    MagSumSeq([k \in 1..Len(rows) |->
                  MagMul(MagOf(rows[k].n),
                         MagMul(MagOf(Abs(rows[k].gain)),
                                MagOf(Abs(rows[k].gain))))])

\* .mean()
GroupMean(rows) == Frac(GroupSum(rows), GroupCount(rows) * RatingDen)

\* the degrees of freedom polars' Expr.std() takes off the count (ddof = 1)
StdDdof == 1

\* the deviation taken over the whole count (ddof = 0)
GroupStd2Population(rows) ==
    LET cnt == GroupCount(rows)
        sm  == GroupSum(rows)
        ss  == IAdd([neg |-> FALSE, mag |-> MagMul(MagOf(cnt), GroupSumSq(rows))],
                    INeg(IMulMag(IntOf(Abs(sm)), MagOf(Abs(sm)))))
    IN  IF cnt <= 0 THEN Null
        ELSE Some([num |-> ss,
                   den |-> MagMul(MagOf(cnt * cnt),
                                  MagOf(RatingDen * RatingDen))])

\* .std() squared: sum((x - mean)^2) / (count - ddof), null when the count
\* does not exceed ddof;  sum((x - mean)^2) = (count * sum(x^2) - sum(x)^2) / count
GroupStd2(rows) ==
    LET cnt == GroupCount(rows)
        sm  == GroupSum(rows)
        ss  == IAdd([neg |-> FALSE, mag |-> MagMul(MagOf(cnt), GroupSumSq(rows))],
                    INeg(IMulMag(IntOf(Abs(sm)), MagOf(Abs(sm)))))
    IN  IF cnt <= StdDdof THEN Null
        ELSE Some([num |-> ss,
                   den |-> MagMul(MagOf(cnt * (cnt - StdDdof)),
                                  MagOf(RatingDen * RatingDen))])

\* pl.col(indicator).mean()
GroupProb(rows) ==
    LET hits == SumSeq([k \in 1..Len(rows) |-> rows[k].n * rows[k].improved])
    IN  Frac(hits, GroupCount(rows))

\* the baseline of a stratum taken from the events of one of its tasks only
BaselineAggOneTask(lf) ==
    { LET task == lf[CHOOSE k \in DOMAIN lf : lf[k].key = key].task
          rows == SelectSeq(lf, LAMBDA r : r.key = key /\ r.task = task)
      IN  [key |-> key,
           baseline_gain |-> GroupMean(rows),
           baseline_std2 |-> GroupStd2(rows),
           baseline_count |-> GroupCount(rows),
           baseline_improve_prob |-> GroupProb(rows)]
      : key \in {lf[k].key : k \in DOMAIN lf} }

\* lf.group_by([bin_rating, bin_acc, bin_diff]).agg(...): one row per key; a
\* null is a key value like any other
BaselineAgg(lf) ==
    { LET rows == SelectSeq(lf, LAMBDA r : r.key = key)
      IN  [key |-> key,
           baseline_gain |-> GroupMean(rows),
           baseline_std2 |-> GroupStd2(rows),
           baseline_count |-> GroupCount(rows),
           baseline_improve_prob |-> GroupProb(rows)]
      : key \in {lf[k].key : k \in DOMAIN lf} }

\* baseline_stats.filter(baseline_count >= min_samples)
BaselineStats(lf, min_samples) ==
    {b \in BaselineAgg(lf) : b.baseline_count >= min_samples}

\* lf.group_by([problem id, bin_rating, bin_acc, bin_diff]).agg(...)
TreatmentAgg(lf) ==
    { LET rows == SelectSeq(lf, LAMBDA r : r.task = g[1] /\ r.key = g[2])
      IN  [task |-> g[1], key |-> g[2],
           treated_gain |-> GroupMean(rows),
           treated_std2 |-> GroupStd2(rows),
           treated_count |-> GroupCount(rows),
           treated_improve_prob |-> GroupProb(rows)]
      : g \in {<<lf[k].task, lf[k].key>> : k \in DOMAIN lf} }

\* the pilot threshold: treatment_stats.filter(treated_count >= 10)
PilotSamples == 10

TreatmentStats(lf) == {t \in TreatmentAgg(lf) : t.treated_count >= PilotSamples}

(***************************************************************************)
(* 5. Effect per bucket: treatment joined to baseline.                     *)
(***************************************************************************)
\* the join taken on the rating bucket alone
KeysJoinRatingOnly(k1, k2) == k1[1] = k2[1]

\* join(on = the three bins, how = "inner"): equal keys; a null key value
\* matches a null in builds whose join takes nulls as equal (polars before
\* 0.20) and matches nothing in the others
KeysJoin(k1, k2) == k1 = k2 /\ (join_nulls \/ \A j \in 1..3 : k1[j] # Null)

Joined(treatment, baseline) ==
    { [task |-> tb[1].task, key |-> tb[1].key,
       treated_gain |-> tb[1].treated_gain,
       treated_std2 |-> tb[1].treated_std2,
       treated_count |-> tb[1].treated_count,
       treated_improve_prob |-> tb[1].treated_improve_prob,
       baseline_gain |-> tb[2].baseline_gain,
       baseline_std2 |-> tb[2].baseline_std2,
       baseline_count |-> tb[2].baseline_count,
       baseline_improve_prob |-> tb[2].baseline_improve_prob]
      : tb \in {x \in treatment \X baseline : KeysJoin(x[1].key, x[2].key)} }

\* the treated count tested against the pilot threshold again
CountFilterPilot(joined, min_samples) ==
    {e \in joined : e.treated_count >= 10 /\ e.baseline_count >= min_samples}

\* the count filter with the test on treated_count left out
CountFilterBaselineOnly(joined, min_samples) ==
    {e \in joined : e.baseline_count >= min_samples}

\* effect_df.filter((treated_count >= min_samples) & (baseline_count >= min_samples))
CountFilter(joined, min_samples) ==
    {e \in joined : e.treated_count >= min_samples
                    /\ e.baseline_count >= min_samples}

\* the difference taken the other way round
UpliftReversed(e) == RSub(e.baseline_gain, e.treated_gain)

\* treated_gain - baseline_gain
Uplift(e) == RSub(e.treated_gain, e.baseline_gain)

\* the baseline term subtracted instead of added
BucketVarianceDifference(e) ==
    IF e.treated_std2 = Null \/ e.baseline_std2 = Null THEN Null
    ELSE Some(RSub(RDiv(e.treated_std2[1], RatOf(e.treated_count)),
                   RDiv(e.baseline_std2[1], RatOf(e.baseline_count))))

\* treated_std^2 / treated_count + baseline_std^2 / baseline_count; null when
\* a std is null
BucketVariance(e) ==
    IF e.treated_std2 = Null \/ e.baseline_std2 = Null THEN Null
    ELSE Some(RAdd(RDiv(e.treated_std2[1], RatOf(e.treated_count)),
                   RDiv(e.baseline_std2[1], RatOf(e.baseline_count))))

\* the sanity cap of effect_df.filter(uplift.abs() <= 300)
MAX_ALLOWED_UPLIFT == 300

\* the cap filter left out
CapFilterOff(rows) == rows

CapFilter(rows) ==
    {e \in rows : RLe(RAbs(e.uplift), RatOf(MAX_ALLOWED_UPLIFT))}

\* treated_improve_prob - baseline_improve_prob
ProbabilityUplift(e) == RSub(e.treated_improve_prob, e.baseline_improve_prob)

\* treated_count.sum().over(problem id)
TotalTreatedSamples(rows, task) ==
    SumSeq(LET s == SetToSeq({e \in rows : e.task = task})
           IN  [k \in 1..Len(s) |-> s[k].treated_count])

\* treated_count / total_treated_samples
Weight(e) == Frac(e.treated_count, e.total_treated_samples)

\* the per-task total taken before the cap filter instead of after it
EffectFrameTotalBeforeCap(treatment, baseline, min_samples) ==
    LET counted == CountFilter(Joined(treatment, baseline), min_samples)
        scored  == { e @@
                     [uplift |-> Uplift(e), bucket_variance |-> BucketVariance(e)]
                     : e \in counted }
        totaled == { e @@ [total_treated_samples |->
                              TotalTreatedSamples(scored, e.task)]
                     : e \in scored }
        capped  == CapFilter(totaled)
        probed  == { e @@ [probability_uplift |-> ProbabilityUplift(e)]
                     : e \in capped }
    IN  { e @@ [weight |-> Weight(e)] : e \in probed }

\* the lazy frame effect_df of compute_causal_effects, lines 86-132
EffectFrame(treatment, baseline, min_samples) ==
    LET counted == CountFilter(Joined(treatment, baseline), min_samples)
        scored  == { e @@
                     [uplift |-> Uplift(e), bucket_variance |-> BucketVariance(e)]
                     : e \in counted }
        capped  == CapFilter(scored)
        probed  == { e @@ [probability_uplift |-> ProbabilityUplift(e)]
                     : e \in capped }
        totaled == { e @@ [total_treated_samples |->
                              TotalTreatedSamples(probed, e.task)]
                     : e \in probed }
    IN  { e @@ [weight |-> Weight(e)] : e \in totaled }

(***************************************************************************)
(* 6. Aggregate effects per problem (ATT).                                 *)
(***************************************************************************)
TasksOf(rows) == {e.task : e \in rows}

\* the plain mean of the uplifts of the strata
AttScoreUnweighted(group) ==
    RDiv(RSumSeq([k \in 1..Len(group) |-> group[k].uplift]), RatOf(Len(group)))

\* the uplifts summed without their weights
AttScoreSum(group) == RSumSeq([k \in 1..Len(group) |-> group[k].uplift])

\* (weight * uplift).sum()
AttScore(group) ==
    RSumSeq([k \in 1..Len(group) |-> RMul(group[k].weight, group[k].uplift)])

\* the weights not squared
AttVarianceUnsquared(group) ==
    RSumSeq([k \in 1..Len(group) |->
                RMul(group[k].weight, group[k].bucket_variance[1])])

\* (weight.pow(2) * bucket_variance).sum()
AttVariance(group) ==
    RSumSeq([k \in 1..Len(group) |->
                RMul(RMul(group[k].weight, group[k].weight),
                     group[k].bucket_variance[1])])

\* bin_rating.mean()
AvgRatingLevel(group) ==
    Frac(SumSeq([k \in 1..Len(group) |-> group[k].key[1][1]]), Len(group))

\* the plain mean of the probability uplifts of the strata
AttProbabilityUpliftUnweighted(group) ==
    RDiv(RSumSeq([k \in 1..Len(group) |-> group[k].probability_uplift]),
         RatOf(Len(group)))

\* (probability_uplift * treated_count).sum() / treated_count.sum()
AttProbabilityUplift(group) ==
    RDiv(RSumSeq([k \in 1..Len(group) |->
                     RMul(group[k].probability_uplift,
                          RatOf(group[k].treated_count))]),
         RatOf(SumSeq([k \in 1..Len(group) |-> group[k].treated_count])))

\* effect_df.group_by(problem id).agg(...), lines 134-149
FinalEffects(effect) ==
    { LET group == SetToSeq({e \in effect : e.task = task})
      IN  [task |-> task,
           att_score |-> AttScore(group),
           att_variance |-> AttVariance(group),
           total_treated_samples |-> group[1].total_treated_samples,
           avg_rating_level |-> AvgRatingLevel(group),
           att_probability_uplift |-> AttProbabilityUplift(group)]
      : task \in TasksOf(effect) }

\* compute_causal_effects(features_path, min_samples=50): the two lazy frames,
\* as what collecting them on the file yields
MinSamples == 50

EffectDf(feat, mode) ==
    LET lf == ForwardFrame(feat, mode)
    IN  EffectFrame(TreatmentStats(lf), BaselineStats(lf, MinSamples), MinSamples)

(***************************************************************************)
(* run_pipeline: standard error, z-score, p-value.                         *)
(*   a z-score is [kind |-> "nan"], [kind |-> "inf", sign],                *)
(*                or [kind |-> "fin", sign, sq], sq = z^2;                 *)
(*   a p-value is [kind |-> "nan"], or [kind |-> "tail", z] for            *)
(*                2 * (1 - cdf(|z|)), z finite or infinite.                *)
(***************************************************************************)
NaN == [kind |-> "nan"]

\* a division by zero taken to be infinite whatever the numerator
ZScoreZeroDivInf(att, var) ==
    IF RSign(var) < 0 THEN NaN
    ELSE IF RSign(var) = 0
         THEN [kind |-> "inf", sign |-> IF RSign(att) < 0 THEN -1 ELSE 1]
    ELSE [kind |-> "fin", sign |-> RSign(att),
          sq |-> RDiv(RMul(att, att), var)]

\* att_score / att_variance.sqrt(): sqrt of a negative is NaN, x / 0 is an
\* infinity of the sign of x, 0 / 0 is NaN
ZScore(att, var) ==
    IF RSign(var) < 0 THEN NaN
    ELSE IF RSign(var) = 0
         THEN (IF RSign(att) = 0 THEN NaN
               ELSE [kind |-> "inf", sign |-> RSign(att)])
    ELSE [kind |-> "fin", sign |-> RSign(att),
          sq |-> RDiv(RMul(att, att), var)]

\* 2 * (1 - stats.norm.cdf(np.abs(z)))
PValue(z) == IF z.kind = "nan" THEN NaN ELSE [kind |-> "tail", z |-> z]

\* the squares of the two-tailed normal quantiles: 2 * (1 - cdf(q)) = level
Quantile2 ==
    [l \in {<<1, 1000>>, <<1, 100>>, <<1, 20>>, <<1, 10>>} |->
        CASE l = <<1, 1000>> -> Frac(10827566, 1000000)
          [] l = <<1, 100>>  -> Frac(6634897, 1000000)
          [] l = <<1, 20>>   -> Frac(3841459, 1000000)
          [] l = <<1, 10>>   -> Frac(2705543, 1000000)]

Levels == DOMAIN Quantile2

\* the comparison with the quantile the wrong way round
PLessReversed(p, level) ==
    IF p.kind = "nan" THEN FALSE
    ELSE IF p.z.kind = "inf" THEN TRUE
    ELSE RLt(p.z.sq, Quantile2[level])

\* the upper tail beyond z taken instead of the two tails beyond |z|
PLessUpperTail(p, level) ==
    IF p.kind = "nan" THEN FALSE
    ELSE IF p.z.sign <= 0 THEN FALSE
    ELSE IF p.z.kind = "inf" THEN TRUE
    ELSE RLt(Quantile2[level], p.z.sq)

\* p_value < level: a NaN compares false; the tail beyond an infinite z is 0;
\* the tail beyond |z| is below the level exactly when |z| is beyond the
\* level's quantile
PLess(p, level) ==
    IF p.kind = "nan" THEN FALSE
    ELSE IF p.z.kind = "inf" THEN TRUE
    ELSE RLt(Quantile2[level], p.z.sq)

WithPValues(final) ==
    { LET z == ZScore(f.att_score, f.att_variance)
      IN  f @@ [att_std_err2 |-> f.att_variance, z_score |-> z,
                p_value |-> PValue(z)]
      : f \in final }

\* the threshold set to 0.05
P_VALUE_THRESHOLD_Loose == <<1, 20>>

\* config.P_VALUE_THRESHOLD = 0.01
P_VALUE_THRESHOLD == <<1, 100>>

\* final_effects.filter(p_value < level)
Significant(final, level) == {f \in final : PLess(f.p_value, level)}

\* the orders .sort("att_score", descending=True) may leave the rows in:
\* rows of equal att_score in either order
RECURSIVE Perms(_)
Perms(S) ==
    IF S = {} THEN {<<>>}
    ELSE UNION { {<<x>> \o q : q \in Perms(S \ {x})} : x \in S }

\* the sort taken in ascending order
SortedAscending(rows) ==
    {q \in Perms(rows) :
        \A k \in 1..(Len(q) - 1) : RLe(q[k].att_score, q[k + 1].att_score)}

SortedDescending(rows) ==
    {q \in Perms(rows) :
        \A k \in 1..(Len(q) - 1) : RLe(q[k + 1].att_score, q[k].att_score)}

(***************************************************************************)
(* validation.py: run_placebo_test, the same matching on the rating gain   *)
(* over the 20 submissions before the event.                               *)
(***************************************************************************)
PlaceboHorizon == 20

\* the shift of the forward outcome taken instead
PastRatingForward(sorted, i) ==
    IF i + PlaceboHorizon <= Len(sorted)
    THEN Some(sorted[i + PlaceboHorizon].rating)
    ELSE Null

\* pl.col(rating).shift(20).over(handle): the rating 20 rows earlier, or null
PastRating(sorted, i) ==
    IF i - PlaceboHorizon >= 1 THEN Some(sorted[i - PlaceboHorizon].rating)
    ELSE Null

PlaceboRows(c, cohort) ==
    LET sorted == SortByTime(cohort.events)
        row(i) ==
            LET e == sorted[i]
                gain == e.rating - PastRating(sorted, i)[1]
            IN  [c |-> c, i |-> i, n |-> cohort.users, task |-> e.task,
                 time |-> e.time,
                 rating |-> e.rating, acc |-> e.acc, diff |-> e.diff,
                 gain |-> gain, improved |-> IF gain > 0 THEN 1 ELSE 0]
        keep == SelectSeq([i \in 1..Len(sorted) |-> i],
                          LAMBDA i : PastRating(sorted, i) # Null)
    IN  [k \in 1..Len(keep) |-> row(keep[k])]

PlaceboOutcome(feat) ==
    Flatten([c \in 1..Len(feat) |-> PlaceboRows(c, feat[c])])

\* the rating bucket taken by floor instead of round
PlaceboBinRatingFloor(r, mode) == Some(FloorDiv(r.rating, 100 * RatingDen))

\* validation.py lines 32-39
PlaceboBinRating(r, mode) == Some(RoundDiv(r.rating, 100 * RatingDen, mode))

PlaceboBinAcc(r, mode) ==
    IF r.acc = Null THEN Null ELSE Some(RoundDiv(r.acc[1] * 10, AccDen, mode))

PlaceboBinDiff(r, mode) ==
    IF r.diff.kind = "null" THEN Null
    ELSE IF r.diff.kind = "inf" THEN Some(0)
    ELSE IF r.diff.kind = "nan" THEN Some(0)
    ELSE Some(RoundDiv(r.diff.v, 200, mode))

PlaceboKey(r, mode) ==
    <<PlaceboBinRating(r, mode), PlaceboBinAcc(r, mode), PlaceboBinDiff(r, mode)>>

PlaceboFrame(feat, mode) ==
    LET rows == PlaceboOutcome(feat)
    IN  [k \in 1..Len(rows) |->
            [c |-> rows[k].c, i |-> rows[k].i, n |-> rows[k].n,
             task |-> rows[k].task, gain |-> rows[k].gain,
             improved |-> rows[k].improved, key |-> PlaceboKey(rows[k], mode)]]

\* lf.group_by(bins).agg([mean gain, mean improved]): one row per key
BaselinePlaceboAgg(lf) ==
    { LET rows == SelectSeq(lf, LAMBDA r : r.key = key)
      IN  [key |-> key,
           baseline_placebo_gain |-> GroupMean(rows),
           baseline_placebo_improve_prob |-> GroupProb(rows)]
      : key \in {lf[k].key : k \in DOMAIN lf} }

\* pl.count().over(bins) on the aggregated frame: the number of its rows
\* that have the row's key
PlaceboBaselineCount(agg, b) == Cardinality({x \in agg : x.key = b.key})

PlaceboMinBaseline == 20

\* .with_columns(count().over(bins).alias("baseline_count"))
\* .filter(baseline_count >= 20)
BaselinePlacebo(lf) ==
    LET agg == BaselinePlaceboAgg(lf)
        counted == { b @@ [baseline_count |-> PlaceboBaselineCount(agg, b)]
                     : b \in agg }
    IN  {b \in counted : b.baseline_count >= PlaceboMinBaseline}

PlaceboMinTreated == 20

\* lf.group_by([problem id] + bins).agg(...).filter(treated_count >= 20)
TreatedPlacebo(lf) ==
    LET agg == { LET rows == SelectSeq(lf, LAMBDA r : r.task = g[1] /\ r.key = g[2])
                 IN  [task |-> g[1], key |-> g[2],
                      treated_placebo_gain |-> GroupMean(rows),
                      treated_count |-> GroupCount(rows),
                      treated_placebo_improve_prob |-> GroupProb(rows)]
                 : g \in {<<lf[k].task, lf[k].key>> : k \in DOMAIN lf} }
    IN  {t \in agg : t.treated_count >= PlaceboMinTreated}

PlaceboCap == 300

\* the join, selection_bias, the cap filter and probability_selection_bias
BiasDf(lf) ==
    LET joined ==
            { [task |-> tb[1].task, key |-> tb[1].key,
               treated_placebo_gain |-> tb[1].treated_placebo_gain,
               treated_count |-> tb[1].treated_count,
               treated_placebo_improve_prob |-> tb[1].treated_placebo_improve_prob,
               baseline_placebo_gain |-> tb[2].baseline_placebo_gain,
               baseline_placebo_improve_prob |-> tb[2].baseline_placebo_improve_prob,
               baseline_count |-> tb[2].baseline_count,
               selection_bias |-> RSub(tb[1].treated_placebo_gain,
                                       tb[2].baseline_placebo_gain)]
              : tb \in {x \in TreatedPlacebo(lf) \X BaselinePlacebo(lf) :
                            KeysJoin(x[1].key, x[2].key)} }
        capped == {e \in joined : RLe(RAbs(e.selection_bias), RatOf(PlaceboCap))}
    IN  { e @@ [probability_selection_bias |->
                   RSub(e.treated_placebo_improve_prob,
                        e.baseline_placebo_improve_prob)]
          : e \in capped }

\* bias_df.group_by(problem id).agg(...)
AggregatedBias(bias) ==
    { LET group == SetToSeq({e \in bias : e.task = task})
          total == SumSeq([k \in 1..Len(group) |-> group[k].treated_count])
      IN  [task |-> task,
           bias_score |->
               RDiv(RSumSeq([k \in 1..Len(group) |->
                               RMul(group[k].selection_bias,
                                    RatOf(group[k].treated_count))]),
                    RatOf(total)),
           probability_bias_score |->
               RDiv(RSumSeq([k \in 1..Len(group) |->
                               RMul(group[k].probability_selection_bias,
                                    RatOf(group[k].treated_count))]),
                    RatOf(total)),
           total_samples |-> total]
      : task \in TasksOf(bias) }

\* .sort("bias_score", descending=True): the orders it may leave
BiasSorted(rows) ==
    {q \in Perms(rows) :
        \A k \in 1..(Len(q) - 1) : RLe(q[k + 1].bias_score, q[k].bias_score)}

(***************************************************************************)
(* run_pipeline's cohort examples (lines 218-260): per significant task    *)
(* the five largest positive gains.  The handle and the two ratings of an  *)
(* example row are not modelled.                                           *)
(***************************************************************************)
RECURSIVE TopGains(_, _)
TopGains(rows, k) ==
    IF k = 0 \/ rows = {} THEN <<>>
    ELSE LET top == CHOOSE r \in rows : \A x \in rows : x.gain <= r.gain
             m   == IF top.n < k THEN top.n ELSE k
         IN  [j \in 1..m |-> top.gain] \o TopGains(rows \ {top}, k - m)

CohortExamples(feat, sig_problem_ids) ==
    LET rows == Range(ForwardOutcome(feat))
    IN  { [task |-> t,
           rating_gain |-> TopGains({r \in rows : r.task = t /\ r.gain > 0}, 5)]
          : t \in {t \in sig_problem_ids :
                      \E r \in rows : r.task = t /\ r.gain > 0} }

(***************************************************************************)
(* The panels explored.  Ratings are written in points.                    *)
(***************************************************************************)
Pts(x) == x * RatingDen

Ev(t, task, rating, acc, diff) ==
    [time |-> t, task |-> task, rating |-> rating, acc |-> acc, diff |-> diff]

Num(v) == [kind |-> "num", v |-> v]

\* `users` users who attempt `task` at rating r0 and stand `gain` (in units
\* of 1/RatingDen) higher 20 submissions later; the other submissions are
\* of the filler task "F"
Solver(task, r0, gain, users, acc, diff) ==
    [users |-> users,
     events |-> [i \in 1..(Horizon + 1) |->
                    Ev(i, IF i = 1 THEN task ELSE "F",
                       IF i = Horizon + 1 THEN Pts(r0) + gain ELSE Pts(r0),
                       acc, diff)]]

\* the same history, stored in the file latest row first
Reversed(cohort) ==
    [users |-> cohort.users,
     events |-> [i \in 1..Len(cohort.events) |->
                    cohort.events[Len(cohort.events) + 1 - i]]]

\* `users` users whose rating rises 5 points a submission over the 20
\* submissions before they attempt `task`, and is flat afterwards
Riser(task, r0, users) ==
    [users |-> users,
     events |-> [i \in 1..(2 * Horizon + 1) |->
                    Ev(i, IF i = Horizon + 1 THEN task ELSE "F",
                       Pts(r0) + Pts(5) * (IF i <= Horizon THEN i - 1 ELSE Horizon),
                       Some(50), Num(1200))]]

\* n users of one task and stratum, half of them with gain g[1] points and
\* half with gain g[2] points
Block(task, r0, g, n) ==
    LET hi == (n + 1) \div 2
        lo == n \div 2
    IN  (IF hi > 0 THEN <<Solver(task, r0, Pts(g[1]), hi, Some(50), Num(1200))>>
         ELSE <<>>)
        \o (IF lo > 0 THEN <<Solver(task, r0, Pts(g[2]), lo, Some(50), Num(1200))>>
            ELSE <<>>)

\* the worked scenario: task "P" with stratum A (100 treated of 1000, means
\* 60 and 20, stds 40 and 50) and stratum B (50 treated of 500, means 30 and
\* 10, stds 30 and 45)
WorkedPanel ==
    <<Solver("P", 1000, Pts(120), 22, Some(50), Num(1200)),
      Solver("P", 1000, Pts(0), 22, Some(50), Num(1200)),
      Solver("P", 1000, Pts(60), 56, Some(50), Num(1200)),
      Solver("F", 1000, Pts(-40), 338, Some(50), Num(1200)),
      Solver("F", 1000, Pts(30), 398, Some(50), Num(1200)),
      Solver("F", 1000, Pts(95), 164, Some(50), Num(1200)),
      Solver("P", 1200, Pts(65), 18, Some(50), Num(1200)),
      Solver("P", 1200, Pts(-5), 18, Some(50), Num(1200)),
      Solver("P", 1200, Pts(30), 14, Some(50), Num(1200)),
      Solver("F", 1200, Pts(-80), 95, Some(50), Num(1200)),
      Solver("F", 1200, Pts(30), 343, Some(50), Num(1200)),
      Solver("F", 1200, 135, 12, Some(50), Num(1200))>>

\* how far around the sample thresholds the group sizes are taken
CountSlack == 1

\* how many columns at most a tried schema leaves out
MaxMissing == 2

TreatedCounts == {PilotSamples} \cup ((MinSamples - CountSlack)..(MinSamples + CountSlack))

GainProfiles == {<<0, 40>>, <<0, 10>>, <<0, 0>>, <<700, 700>>}

ControlProfiles == {<<-10, 10>>, <<0, 0>>}

\* task "P" in stratum A (nA users, profile pA) and in stratum B (nB users),
\* task "Q" in stratum A (nQ users), over a control of 60 users of the
\* filler task in each stratum
GenericPanel(nA, pA, nB, nQ, ctl) ==
    Block("F", 1000, ctl, 60) \o Block("P", 1000, pA, nA)
    \o Block("F", 1200, <<-10, 10>>, 60) \o Block("P", 1200, <<20, 60>>, nB)
    \o Block("Q", 1000, <<-30, -10>>, nQ)

\* the controls a profile of task "P" is set against: the constant control
\* only with the constant profile
ControlsOf(pA) == IF pA = <<0, 0>> THEN ControlProfiles ELSE {<<-10, 10>>}

GenericPanels ==
    UNION { { GenericPanel(nA, pA, nB, nQ, ctl) :
                nA \in TreatedCounts, nB \in {0, MinSamples},
                nQ \in {0, MinSamples}, ctl \in ControlsOf(pA) }
            : pA \in GainProfiles }

\* the placebo scenario: users rising before task "Q" and flat after it
RiserPanels ==
    { <<Riser("Q", 1000, n)>> \o Block("F", 1100, <<0, 0>>, 60)
      : n \in {PlaceboMinTreated, MinSamples + CountSlack} }

\* confounders on a rounding tie, not finite, or missing
EdgeConfounders ==
    {<<1050, Some(50), Num(1200)>>, <<1150, Some(35), Num(1300)>>,
     <<1049, Some(45), Num(1500)>>, <<1000, Null, Num(1200)>>,
     <<1000, Some(50), [kind |-> "nan"]>>, <<1000, Some(50), [kind |-> "inf"]>>,
     <<1000, Some(50), [kind |-> "null"]>>, <<1000, Some(0), Num(0)>>}

EdgePanels ==
    { <<Solver("P", x[1], Pts(20), n, x[2], x[3]),
        Reversed(Solver("F", x[1], Pts(-10), MinSamples, x[2], x[3])),
        Solver("F", 1000, Pts(0), MinSamples, Some(50), Num(1200))>>
      : x \in EdgeConfounders, n \in {MinSamples} }

\* a task with enough treated users for the pilot threshold in a stratum too
\* small for a baseline; and the same next to a stratum that is large enough
\* for a baseline but in which no task reaches the pilot threshold, and to an
\* ordinary stratum
SmallTasks == <<"T1", "T2", "T3", "T4", "T5", "T6">>

LonePanel == Block("P", 1400, <<0, 40>>, PilotSamples)

UnmatchedPanel ==
    LonePanel
    \o [k \in 1..Len(SmallTasks) |->
           Solver(SmallTasks[k], 1600, Pts(10 * k), PilotSamples - 1,
                  Some(50), Num(1200))]
    \o Block("F", 1000, <<-10, 10>>, 60)

SparsePanels == {LonePanel, UnmatchedPanel}

\* tasks "P" and "Q" in one stratum with opposite gains g and -g around a
\* control of mean gain 0: a narrow spread of the gains and a wide one
MirrorPanel(g) ==
    Block("F", 1000, <<-10, 10>>, 60) \o Block("P", 1000, g, MinSamples)
    \o Block("Q", 1000, <<-g[2], -g[1]>>, MinSamples)

MirrorPanels == {MirrorPanel(<<10, 30>>), MirrorPanel(<<-400, 440>>)}

Panels ==
    {WorkedPanel} \cup GenericPanels \cup RiserPanels \cup EdgePanels
    \cup SparsePanels \cup MirrorPanels

(***************************************************************************)
(* The state machine: the two scripts, each run once, in any order.        *)
(***************************************************************************)
NoFile == [exists |-> FALSE]
File(rows) == [exists |-> TRUE, rows |-> rows]

\* whether some confounder of the panel is on a rounding tie: only then do
\* the two tie rules of Expr.round give different buckets
OnTie(n, d) == (2 * n) % d = 0 /\ n % d # 0

HasTie(feat) ==
    \E c \in DOMAIN feat : \E e \in Range(feat[c].events) :
        \/ OnTie(e.rating, 100 * RatingDen)
        \/ e.acc # Null /\ OnTie(e.acc[1] * 10, AccDen)
        \/ e.diff.kind = "num" /\ OnTie(e.diff.v, 200)

\* whether some confounder of the panel is missing: only then do the two
\* kinds of join differ
HasNull(feat) ==
    \E c \in DOMAIN feat : \E e \in Range(feat[c].events) :
        e.acc = Null \/ e.diff.kind = "null"

\* the columns of the input contract, by their names in config.py
PanelColumns ==
    {"handle", "time", "rating_at_submission", "id_of_submission_task",
     "verdict", "roll_acc_20", "roll_ok_diff_20"}

\* the columns the expressions of compute_causal_effects refer to; those of
\* run_placebo_test are the same
UsedColumns ==
    {"handle", "time", "rating_at_submission", "roll_acc_20",
     "roll_ok_diff_20", "id_of_submission_task"}

\* DataLoader.clean_and_prepare, on the raw submissions file: the one place
\* where a set of required columns is compared with the file's columns
LoaderRequired ==
    {"handle", "time", "rating_at_submission", "id_of_submission_task",
     "verdict"}

NoError == [kind |-> "none"]

CleanAndPrepareError(cols) ==
    LET missing == LoaderRequired \ cols
    IN  IF missing # {} THEN [kind |-> "ValueError", names |-> missing]
        ELSE NoError

\* what collect() raises when an expression names a column the file lacks:
\* the error names the one column the build resolved first
ColumnNotFound(c) == [kind |-> "ColumnNotFoundError", names |-> {c}]

\* the panel whose file is tried with columns left out, and the schemas tried
SchemaPanel == GenericPanel(MinSamples, <<0, 40>>, 0, 0, <<-10, 10>>)

PartialSchemas ==
    {PanelColumns \ m : m \in {x \in SUBSET PanelColumns :
                                  x # {} /\ Cardinality(x) <= MaxMissing}}

Init ==
    /\ \/ features \in Panels /\ columns = PanelColumns
       \/ features = SchemaPanel /\ columns \in PartialSchemas
    /\ round_mode \in (IF HasTie(features) THEN {"half_even", "half_away"}
                       ELSE {"half_even"})
    /\ join_nulls \in (IF HasNull(features) THEN BOOLEAN ELSE {FALSE})
    /\ pc = "start"
    /\ baseline_stats = {}
    /\ treatment_stats = {}
    /\ effect_df = {}
    /\ final_effects = {}
    /\ significant_effects = <<>>
    /\ att_file = NoFile
    /\ cohort_file = NoFile
    /\ detailed_file = NoFile
    /\ ppc = "start"
    /\ res = <<>>
    /\ bias_file = NoFile
    /\ error = NoError
    /\ perror = NoError

\* run_pipeline lines 162-191: compute_causal_effects builds the frames,
\* collect() evaluates them on the file, and the p-values are added; with a
\* used column absent from the file, collect() raises and the script ends
CollectEffects ==
    /\ pc = "start"
    /\ IF UsedColumns \subseteq columns
       THEN LET lf == ForwardFrame(features, round_mode)
                treatment == TreatmentStats(lf)
                baseline == BaselineStats(lf, MinSamples)
                effect == EffectFrame(treatment, baseline, MinSamples)
            IN  /\ baseline_stats' = baseline
                /\ treatment_stats' = treatment
                /\ effect_df' = effect
                /\ final_effects' = WithPValues(FinalEffects(effect))
                /\ pc' = "tested"
                /\ error' = error
       ELSE /\ \E c \in UsedColumns \ columns : error' = ColumnNotFound(c)
            /\ pc' = "failed"
            /\ UNCHANGED <<baseline_stats, treatment_stats, effect_df,
                           final_effects>>
    /\ UNCHANGED <<features, columns, round_mode, join_nulls,
                   significant_effects,
                   att_file, cohort_file, detailed_file, ppc, res, bias_file,
                   perror>>

\* an empty significance filter treated as an error
WriteEffectsRaiseOnEmpty ==
    /\ pc = "tested"
    /\ IF Significant(final_effects, P_VALUE_THRESHOLD) = {}
       THEN /\ pc' = "failed"
            /\ error' = [kind |-> "ValueError", names |-> {}]
            /\ UNCHANGED <<significant_effects, att_file>>
       ELSE /\ \E q \in SortedDescending(Significant(final_effects,
                                                     P_VALUE_THRESHOLD)) :
                  /\ significant_effects' = q
                  /\ att_file' = File(q)
            /\ pc' = "att_written"
            /\ error' = error
    /\ UNCHANGED <<features, columns, round_mode, join_nulls,
                   baseline_stats,
                   treatment_stats, effect_df, final_effects, cohort_file,
                   detailed_file, ppc, res, bias_file, perror>>

\* lines 194-206: filter by significance, sort, write the ATT table
WriteEffects ==
    /\ pc = "tested"
    /\ \E q \in SortedDescending(Significant(final_effects, P_VALUE_THRESHOLD)) :
          /\ significant_effects' = q
          /\ att_file' = File(q)
    /\ pc' = "att_written"
    /\ UNCHANGED <<features, columns, round_mode, join_nulls,
                   baseline_stats,
                   treatment_stats, effect_df, final_effects, cohort_file,
                   detailed_file, ppc, res, bias_file, error, perror>>

\* lines 218-260: the cohort examples of the significant tasks
WriteCohort ==
    /\ pc = "att_written"
    /\ cohort_file' = File(CohortExamples(features,
                                          {f.task : f \in Range(significant_effects)}))
    /\ pc' = "cohort_written"
    /\ UNCHANGED <<features, columns, round_mode, join_nulls,
                   baseline_stats,
                   treatment_stats, effect_df, final_effects,
                   significant_effects, att_file, detailed_file, ppc, res,
                   bias_file, error, perror>>

\* the detailed table written without the filter on the significant tasks
WriteDetailedUnfiltered ==
    /\ pc = "cohort_written"
    /\ detailed_file' = File(EffectDf(features, round_mode))
    /\ pc' = "done"
    /\ UNCHANGED <<features, columns, round_mode, join_nulls,
                   baseline_stats,
                   treatment_stats, effect_df, final_effects,
                   significant_effects, att_file, cohort_file, ppc, res,
                   bias_file, error, perror>>

\* lines 263-267: collect effect_df for the significant tasks and write it
WriteDetailed ==
    /\ pc = "cohort_written"
    /\ detailed_file' =
          File({e \in EffectDf(features, round_mode) :
                   e.task \in {f.task : f \in Range(significant_effects)}})
    /\ pc' = "done"
    /\ UNCHANGED <<features, columns, round_mode, join_nulls,
                   baseline_stats,
                   treatment_stats, effect_df, final_effects,
                   significant_effects, att_file, cohort_file, ppc, res,
                   bias_file, error, perror>>

\* run_placebo_test lines 7-99: build and collect the sorted bias frame; with
\* a used column absent from the file, collect() raises and the script ends
PlaceboCollect ==
    /\ ppc = "start"
    /\ IF UsedColumns \subseteq columns
       THEN /\ \E q \in BiasSorted(AggregatedBias(BiasDf(
                           PlaceboFrame(features, round_mode)))) : res' = q
            /\ ppc' = "collected"
            /\ perror' = perror
       ELSE /\ \E c \in UsedColumns \ columns : perror' = ColumnNotFound(c)
            /\ ppc' = "failed"
            /\ res' = res
    /\ UNCHANGED <<features, columns, round_mode, join_nulls,
                   pc, baseline_stats,
                   treatment_stats, effect_df, final_effects,
                   significant_effects, att_file, cohort_file, detailed_file,
                   bias_file, error>>

\* the bias report written over the ATT table as well
PlaceboWriteOverAtt ==
    /\ ppc = "collected"
    /\ bias_file' = File(res)
    /\ att_file' = File(res)
    /\ ppc' = "done"
    /\ UNCHANGED <<features, columns, round_mode, join_nulls,
                   pc, baseline_stats,
                   treatment_stats, effect_df, final_effects,
                   significant_effects, cohort_file, detailed_file, res,
                   error, perror>>

\* lines 110-112: write the bias report
PlaceboWrite ==
    /\ ppc = "collected"
    /\ bias_file' = File(res)
    /\ ppc' = "done"
    /\ UNCHANGED <<features, columns, round_mode, join_nulls,
                   pc, baseline_stats,
                   treatment_stats, effect_df, final_effects,
                   significant_effects, att_file, cohort_file, detailed_file,
                   res, error, perror>>

Next ==
    \/ CollectEffects
    \/ WriteEffects
    \/ WriteCohort
    \/ WriteDetailed
    \/ PlaceboCollect
    \/ PlaceboWrite

Spec == Init /\ [][Next]_vars

(***************************************************************************)
(* Properties.                                                             *)
(***************************************************************************)
Written == pc \in {"att_written", "cohort_written", "done"}

AttTasks == {att_file.rows[k].task : k \in DOMAIN att_file.rows}

RowsOf(task) == {e \in effect_df : e.task = task}

WorkedA(e) ==
    /\ e.treated_count = 100 /\ e.baseline_count = 1000
    /\ REq(e.treated_gain, RatOf(60)) /\ REq(e.baseline_gain, RatOf(20))
    /\ REq(e.treated_std2[1], RatOf(40 * 40))
    /\ REq(e.baseline_std2[1], RatOf(50 * 50))

WorkedB(e) ==
    /\ e.treated_count = 50 /\ e.baseline_count = 500
    /\ REq(e.treated_gain, RatOf(30)) /\ REq(e.baseline_gain, RatOf(10))
    /\ REq(e.treated_std2[1], RatOf(30 * 30))
    /\ REq(e.baseline_std2[1], RatOf(45 * 45))

WorkedCase(task, a, b) == RowsOf(task) = {a, b} /\ WorkedA(a) /\ WorkedB(b)

\* C1: a task whose surviving strata are exactly A and B of the worked
\* scenario gets weights 2/3 and 1/3, uplifts 40 and 20, bucket variances
\* 18.5 and 22.05, att_score 100/3, att_variance 10.67 to two decimals and
\* 150 treated samples, and is in the ATT table written at threshold 0.01.
C1_WorkedScenario ==
    \A a \in effect_df, b \in effect_df :
        WorkedCase(a.task, a, b) =>
            /\ REq(a.weight, Frac(2, 3)) /\ REq(b.weight, Frac(1, 3))
            /\ REq(a.uplift, RatOf(40)) /\ REq(b.uplift, RatOf(20))
            /\ REq(a.bucket_variance[1], Frac(185, 10))
            /\ REq(b.bucket_variance[1], Frac(2205, 100))
            /\ \E f \in final_effects :
                  /\ f.task = a.task
                  /\ REq(f.att_score, Frac(100, 3))
                  /\ RLe(Frac(10665, 1000), f.att_variance)
                  /\ RLt(f.att_variance, Frac(10675, 1000))
                  /\ f.total_treated_samples = 150
                  /\ PLess(f.p_value, P_VALUE_THRESHOLD)
            /\ Written => a.task \in AttTasks

C1_Witness ==
    /\ pc = "done"
    /\ \E a \in effect_df, b \in effect_df : WorkedCase(a.task, a, b)

\* C2: for every task with a surviving EffectRecord, the weights
\* treated_count / total_treated_samples of its surviving strata sum to 1,
\* the total being the treated count of the surviving strata alone.
C2_WeightsSumToOne ==
    \A task \in TasksOf(effect_df) :
        LET rows == SetToSeq(RowsOf(task))
            total == SumSeq([k \in 1..Len(rows) |-> rows[k].treated_count])
        IN  /\ REq(RSumSeq([k \in 1..Len(rows) |-> rows[k].weight]), RatOf(1))
            /\ \A k \in 1..Len(rows) :
                  /\ rows[k].total_treated_samples = total
                  /\ REq(rows[k].weight, Frac(rows[k].treated_count, total))

\* the joined strata that pass the count filter, from the stored frames
Counted == CountFilter(Joined(treatment_stats, baseline_stats), MinSamples)

OverCap(e) == RLt(RatOf(MAX_ALLOWED_UPLIFT), RAbs(Uplift(e)))

C2_Witness ==
    /\ pc # "start"
    /\ \E task \in TasksOf(effect_df) : Cardinality(RowsOf(task)) = 2
    /\ \E e \in Counted : OverCap(e) /\ RowsOf(e.task) # {}

\* the strata of a task that pass the count filter and are within the cap
WithinCap(task) == {e \in Counted : e.task = task /\ ~OverCap(e)}

TreatedWithinCap(task) ==
    LET q == SetToSeq(WithinCap(task))
    IN  SumSeq([k \in 1..Len(q) |-> q[k].treated_count])

\* the treated-count-weighted mean uplift of those strata
AttWithinCap(task) ==
    LET q == SetToSeq(WithinCap(task))
    IN  RSumSeq([k \in 1..Len(q) |->
                    RMul(Frac(q[k].treated_count, TreatedWithinCap(task)),
                         Uplift(q[k]))])

\* C3: no row of effect_df, the frame the ATT aggregation reads, and no row
\* of the detailed table has |uplift| > 300; a stratum over the cap is in
\* neither, and a task's total_treated_samples and att_score are those of
\* its strata within the cap alone.
C3_CapEnforced ==
    /\ \A e \in effect_df : RLe(RAbs(e.uplift), RatOf(MAX_ALLOWED_UPLIFT))
    /\ detailed_file.exists =>
          \A e \in detailed_file.rows :
              RLe(RAbs(e.uplift), RatOf(MAX_ALLOWED_UPLIFT))
    /\ \A e \in Counted :
          OverCap(e) => \A x \in effect_df : ~(x.task = e.task /\ x.key = e.key)
    /\ \A f \in final_effects :
          /\ f.total_treated_samples = TreatedWithinCap(f.task)
          /\ REq(f.att_score, AttWithinCap(f.task))

C3_Witness ==
    /\ pc = "done"
    /\ \E e \in Counted :
          /\ OverCap(e)
          /\ \E f \in final_effects : f.task = e.task
          /\ \E d \in detailed_file.rows : d.task = e.task

\* the tasks of the panel
PanelTasks ==
    UNION { {e.task : e \in Range(features[c].events)} : c \in DOMAIN features }

\* the tasks with a stratum of min_samples treated rows, a baseline of
\* min_samples rows with the same non-null key, and an uplift within the cap
SurvivingTasks ==
    LET lf == ForwardFrame(features, round_mode)
        baseline == BaselineAgg(lf)
    IN  { t.task : t \in
            { x \in TreatmentAgg(lf) :
                /\ x.treated_count >= MinSamples
                /\ \E b \in baseline :
                      /\ KeysJoin(x.key, b.key)
                      /\ b.baseline_count >= MinSamples
                      /\ RLe(RAbs(RSub(x.treated_gain, b.baseline_gain)),
                             RatOf(MAX_ALLOWED_UPLIFT)) } }

\* C4: a task of the panel none of whose strata survives (too few treated
\* rows, no qualifying baseline, or over the cap) has no row in the collected
\* per-task frame nor in the ATT table, whatever its att_score would be.
C4_NoSurvivorNoRow ==
    pc # "start" =>
        LET surviving == SurvivingTasks
        IN  \A task \in PanelTasks :
                task \notin surviving =>
                    /\ \A f \in final_effects : f.task # task
                    /\ att_file.exists => task \notin AttTasks

C4_Witness ==
    /\ pc = "done"
    /\ att_file.rows # <<>>
    /\ \E t \in treatment_stats :
          /\ t.treated_count < MinSamples
          /\ t.task \notin SurvivingTasks

\* C5: a task whose att_variance is 0 is in the significant set at no
\* threshold and not in the ATT table, and every row of the ATT table has a
\* finite z_score.
C5_DegenerateExcluded ==
    /\ \A f \in final_effects :
          RSign(f.att_variance) = 0 =>
              /\ \A level \in Levels : f \notin Significant(final_effects, level)
              /\ att_file.exists => f.task \notin AttTasks
    /\ att_file.exists =>
          \A k \in DOMAIN att_file.rows : att_file.rows[k].z_score.kind = "fin"

C5_Witness ==
    /\ pc = "done"
    /\ att_file.exists
    /\ \E f \in final_effects : RSign(f.att_variance) = 0

\* C6: on a panel whose users rise over the 20 submissions before task "Q"
\* and are flat after it, with the placebo sample thresholds met, the bias
\* table written by run_placebo_test has a row for "Q" with bias_score > 0.
C6_PlaceboDetects ==
    (ppc = "done" /\ features \in RiserPanels) =>
        \E k \in DOMAIN bias_file.rows :
            /\ bias_file.rows[k].task = "Q"
            /\ RSign(bias_file.rows[k].bias_score) > 0

\* the threshold l1 is not above the threshold l2
LevelLe(l1, l2) == l1[1] * l2[2] <= l2[1] * l1[2]

\* the pairs of a threshold and a task the significance filter retains at it
RetainedAt ==
    UNION { {<<l, t>> : t \in TasksOf(Significant(final_effects, l))}
            : l \in Levels }

\* C7: for thresholds t1 <= t2 the tasks the significance filter retains at
\* t1 are among those it retains at t2.
C7_ThresholdMonotone ==
    LET retained == RetainedAt
    IN  \A l1 \in Levels, l2 \in Levels :
            LevelLe(l1, l2) =>
                \A f \in final_effects :
                    <<l1, f.task>> \in retained => <<l2, f.task>> \in retained

C7_Witness ==
    /\ pc # "start"
    /\ \E f \in final_effects :
          /\ ~PLess(f.p_value, <<1, 100>>)
          /\ PLess(f.p_value, <<1, 10>>)
    /\ \E f \in final_effects : PLess(f.p_value, <<1, 1000>>)

\* C8: every row of the per-task frame and of the ATT table has
\* att_variance >= 0, and every row of effect_df and of the detailed table
\* has a bucket_variance, and it is >= 0.
C8_VarianceNonNegative ==
    /\ \A e \in effect_df :
          e.bucket_variance # Null /\ RSign(e.bucket_variance[1]) >= 0
    /\ \A f \in final_effects : RSign(f.att_variance) >= 0
    /\ att_file.exists =>
          \A k \in DOMAIN att_file.rows : RSign(att_file.rows[k].att_variance) >= 0
    /\ detailed_file.exists =>
          \A e \in detailed_file.rows : RSign(e.bucket_variance[1]) >= 0

C8_Witness ==
    /\ pc = "done"
    /\ \E k \in DOMAIN att_file.rows : RSign(att_file.rows[k].att_variance) > 0
    /\ \E e \in detailed_file.rows : RSign(e.bucket_variance[1]) > 0
    /\ \E e \in effect_df : RSign(e.bucket_variance[1]) = 0

\* the events of the panel
PanelEvents ==
    UNION { Range(features[c].events) : c \in DOMAIN features }

\* the confounder values of the events of the panel
PanelConfounders == {<<e.rating, e.acc, e.diff>> : e \in PanelEvents}

\* C9: the placebo pipeline gives every event of the panel the stratum key
\* the forward pipeline gives it, and the events with the same rating,
\* rolling accuracy and rolling difficulty all get one key.
C9_SameBuckets ==
    LET events == PanelEvents
    IN  /\ \A e \in events :
              PlaceboKey(e, round_mode) = ForwardKey(e, round_mode)
        /\ \A x \in PanelConfounders :
              LET same == {e \in events : <<e.rating, e.acc, e.diff>> = x}
              IN  /\ Cardinality({ForwardKey(e, round_mode) : e \in same}) = 1
                  /\ Cardinality({PlaceboKey(e, round_mode) : e \in same}) = 1

C9_Witness ==
    /\ pc = "done" /\ ppc = "done"
    /\ round_mode = "half_away"
    /\ \E e \in PanelEvents :
          OnTie(e.rating, 100 * RatingDen) /\ e.diff.kind = "num"
                                           /\ OnTie(e.diff.v, 200)

\* the tasks of the ATT table a run of run_pipeline on the panel writes
SignificantTasks ==
    TasksOf(Significant(WithPValues(FinalEffects(EffectDf(features, round_mode))),
                        P_VALUE_THRESHOLD))

\* C10: a step of run_placebo_test changes neither the panel nor a table of
\* run_pipeline, only a step of run_placebo_test changes the bias table, and
\* the ATT table and the detailed table run_pipeline has written are those
\* of the panel, whether or not and whenever the placebo test has run.
C10_PlaceboReadOnly ==
    /\ [][ppc' # ppc =>
            UNCHANGED <<features, att_file, cohort_file, detailed_file>>]_vars
    /\ [][bias_file' # bias_file => (ppc' # ppc /\ pc' = pc)]_vars
    /\ [](pc = "done" =>
            LET tasks == SignificantTasks
            IN  /\ AttTasks = tasks
                /\ \A k \in DOMAIN att_file.rows :
                      att_file.rows[k] \in final_effects
                /\ detailed_file.rows =
                      {e \in EffectDf(features, round_mode) : e.task \in tasks})

C10_Witness ==
    /\ pc = "done" /\ ppc = "done"
    /\ att_file.rows # <<>>
    /\ detailed_file.rows # {}
    /\ bias_file.exists

\* C11: when a column of the input contract is missing from the panel file,
\* no output file is ever written, and a script that has started has failed
\* with an error that names exactly the set of missing columns.
MissingColumns == PanelColumns \ columns

C11_MissingColumnsFatal ==
    MissingColumns # {} =>
        /\ ~att_file.exists /\ ~cohort_file.exists
        /\ ~detailed_file.exists /\ ~bias_file.exists
        /\ pc # "start" =>
              pc = "failed" /\ error # NoError /\ error.names = MissingColumns
        /\ ppc # "start" =>
              ppc = "failed" /\ perror # NoError /\ perror.names = MissingColumns

\* C12: with every used column present neither script ever ends in an
\* error; when run_pipeline has found no significant task (no stratum
\* survived, or no p-value is below the threshold) the ATT table it writes has
\* zero rows and so have the tables written after it; when run_placebo_test
\* has collected an empty frame the bias table it writes has zero rows.
NoSignificantTask == Significant(final_effects, P_VALUE_THRESHOLD) = {}

C12_EmptyNotError ==
    UsedColumns \subseteq columns =>
        /\ pc # "failed" /\ error = NoError
        /\ ppc # "failed" /\ perror = NoError
        /\ (pc \in {"att_written", "cohort_written", "done"} /\ NoSignificantTask)
              => att_file = File(<<>>)
        /\ (pc = "done" /\ NoSignificantTask)
              => /\ detailed_file.exists /\ detailed_file.rows = {}
                 /\ cohort_file.exists
        /\ (ppc = "done" /\ res = <<>>) => bias_file = File(<<>>)

\* no task passed the significance filter although strata survived, and both
\* scripts have ended
C12_Witness ==
    /\ pc = "done" /\ ppc = "done"
    /\ effect_df # {}
    /\ att_file = File(<<>>) /\ detailed_file = File({})
    /\ bias_file = File(<<>>)

C12_WitnessNoStratum ==
    /\ pc = "done" /\ ppc = "done"
    /\ effect_df = {}
    /\ att_file = File(<<>>) /\ detailed_file = File({})
    /\ bias_file = File(<<>>)

\* C13: a task is in the written ATT table exactly when it has a surviving
\* stratum and its two-tailed p-value 2 * (1 - Phi(|att_score /
\* sqrt(att_variance)|)) is strictly below 0.01, that is when |att_score| is
\* strictly beyond the 0.01 quantile times sqrt(att_variance); a p-value
\* equal to the threshold is not below it.
BeyondQuantile(f, level) ==
    /\ RSign(f.att_variance) >= 0
    /\ RLt(RMul(Quantile2[level], f.att_variance),
           RMul(f.att_score, f.att_score))

AtQuantile(level) ==
    PValue([kind |-> "fin", sign |-> 1, sq |-> Quantile2[level]])

C13_SignificanceRetention ==
    /\ Written =>
          \A t \in PanelTasks :
              t \in AttTasks <=>
                  /\ RowsOf(t) # {}
                  /\ \E f \in final_effects :
                        f.task = t /\ BeyondQuantile(f, <<1, 100>>)
    /\ ~PLess(AtQuantile(<<1, 100>>), <<1, 100>>)

\* one task with a surviving stratum is retained and another is not
C13_Witness ==
    /\ Written
    /\ AttTasks # {}
    /\ \E f \in final_effects : f.task \notin AttTasks /\ RowsOf(f.task) # {}

\* C14: the rows of the written ATT table are in non-increasing order of
\* att_score.
C14_TerminalRanking ==
    att_file.exists =>
        \A k \in 1..(Len(att_file.rows) - 1) :
            RLe(att_file.rows[k + 1].att_score, att_file.rows[k].att_score)

\* a written table of several rows with different scores
C14_Witness ==
    /\ att_file.exists
    /\ Len(att_file.rows) >= 2
    /\ RLt(att_file.rows[Len(att_file.rows)].att_score, att_file.rows[1].att_score)

\* C15: an event whose rolling difficulty is NaN, infinite or missing gets
\* bin_diff = 0, and an event with such a difficulty or with a null rolling
\* accuracy is counted in the treatment and the baseline statistics of its
\* stratum and contributes to an EffectRecord when the stratum passes the
\* count thresholds and the cap.
EdgeDiff(r) == r.diff.kind \in {"nan", "inf", "null"}

C15_SentinelBucket ==
    pc = "tested" =>
        LET rows == ForwardOutcome(features)
            lf == ForwardFrame(features, round_mode)
            treatment == TreatmentAgg(lf)
            baseline == BaselineAgg(lf)
        IN  \A k \in DOMAIN rows :
                LET r == rows[k]
                    key == ForwardKey(r, round_mode)
                IN  (EdgeDiff(r) \/ r.acc = Null) =>
                        /\ EdgeDiff(r) => key[3] = Some(0)
                        /\ \E t \in treatment :
                              /\ t.task = r.task /\ t.key = key
                              /\ t.treated_count >= r.n
                              /\ \E b \in baseline :
                                    /\ b.key = key
                                    /\ b.baseline_count >= t.treated_count
                                    /\ (/\ t.treated_count >= MinSamples
                                        /\ b.baseline_count >= MinSamples
                                        /\ RLe(RAbs(RSub(t.treated_gain,
                                                         b.baseline_gain)),
                                               RatOf(MAX_ALLOWED_UPLIFT)))
                                       => \E e \in effect_df :
                                             e.task = t.task /\ e.key = key

\* C16: the collected per-task frame has one row for each task with a
\* surviving stratum; with n the sum of treated_count over the task's
\* surviving strata, the row has total_treated_samples = n, att_score = the
\* sum of (treated_count / n) * uplift and att_variance = the sum of
\* (treated_count / n)^2 * bucket_variance over those strata.
Collected == pc \in {"tested", "att_written", "cohort_written", "done"}

C16_AttAggregation ==
    Collected =>
        /\ TasksOf(final_effects) = TasksOf(effect_df)
        /\ Cardinality(final_effects) = Cardinality(TasksOf(effect_df))
        /\ \A f \in final_effects :
              LET strata == SetToSeq(RowsOf(f.task))
                  n == SumSeq([i \in 1..Len(strata) |-> strata[i].treated_count])
              IN  /\ f.total_treated_samples = n
                  /\ REq(RMul(f.att_score, RatOf(n)),
                         RSumSeq([i \in 1..Len(strata) |->
                                     RMul(RatOf(strata[i].treated_count),
                                          strata[i].uplift)]))
                  /\ REq(RMul(f.att_variance, RatOf(n * n)),
                         RSumSeq([i \in 1..Len(strata) |->
                                     RMul(RatOf(strata[i].treated_count
                                                * strata[i].treated_count),
                                          strata[i].bucket_variance[1])]))

\* a task with two surviving strata of different sizes and different uplifts
C16_Witness ==
    /\ Collected
    /\ \E f \in final_effects :
          \E e1, e2 \in RowsOf(f.task) :
              /\ e1.treated_count # e2.treated_count
              /\ ~REq(e1.uplift, e2.uplift)

\* C17: the statistics of compute_causal_effects are those of the forward
\* outcomes: an event of a user with at least 20 later events of the same
\* user has the outcome (rating of that user's 20th later event) - (its own
\* rating) and improved = 1 exactly when the outcome is positive; an event
\* with fewer later events of its user is in no statistic; no other user's
\* event enters the outcome.
LaterEvents(c, e) == {x \in Range(features[c].events) : x.time > e.time}

\* the 20th of the later events of the same user
TwentiethLater(c, e) ==
    CHOOSE x \in LaterEvents(c, e) :
        Cardinality({y \in LaterEvents(c, e) : y.time < x.time}) = 19

ExpectedOutcomes ==
    UNION { { [c |-> c, time |-> e.time, n |-> features[c].users,
               task |-> e.task, key |-> ForwardKey(e, round_mode),
               outcome |-> TwentiethLater(c, e).rating - e.rating]
              : e \in {x \in Range(features[c].events) :
                          Cardinality(LaterEvents(c, x)) >= 20} }
            : c \in DOMAIN features }

ExpectedCount(group) ==
    LET s == SetToSeq(group) IN SumSeq([k \in 1..Len(s) |-> s[k].n])

ExpectedGainSum(group) ==
    LET s == SetToSeq(group)
    IN  SumSeq([k \in 1..Len(s) |-> s[k].n * s[k].outcome])

ExpectedImproved(group) ==
    LET s == SetToSeq(group)
    IN  SumSeq([k \in 1..Len(s) |-> IF s[k].outcome > 0 THEN s[k].n ELSE 0])

C17_ForwardOutcome ==
    pc = "tested" =>
        LET expected == ExpectedOutcomes
        IN  /\ \A t \in treatment_stats :
                  LET group == {o \in expected :
                                   o.task = t.task /\ o.key = t.key}
                  IN  /\ t.treated_count = ExpectedCount(group)
                      /\ REq(t.treated_gain,
                             Frac(ExpectedGainSum(group),
                                  RatingDen * t.treated_count))
                      /\ REq(t.treated_improve_prob,
                             Frac(ExpectedImproved(group), t.treated_count))
            /\ \A b \in baseline_stats :
                  LET group == {o \in expected : o.key = b.key}
                  IN  /\ b.baseline_count = ExpectedCount(group)
                      /\ REq(b.baseline_gain,
                             Frac(ExpectedGainSum(group),
                                  RatingDen * b.baseline_count))
                      /\ REq(b.baseline_improve_prob,
                             Frac(ExpectedImproved(group), b.baseline_count))
            /\ \A o \in expected :
                  LET n == ExpectedCount({x \in expected :
                                             x.task = o.task /\ x.key = o.key})
                  IN  n >= PilotSamples =>
                          \E t \in treatment_stats :
                              t.task = o.task /\ t.key = o.key

\* users whose file is not in time order, with events that have a 20th later
\* event, some improved and some not, and events that have none
C17_Witness ==
    /\ pc = "tested"
    /\ \E c \in DOMAIN features :
          /\ \E i \in 1..(Len(features[c].events) - 1) :
                features[c].events[i].time > features[c].events[i + 1].time
          /\ \E e \in Range(features[c].events) :
                Cardinality(LaterEvents(c, e)) < 20
    /\ \E t \in treatment_stats : RSign(t.treated_improve_prob) > 0
    /\ \E t \in treatment_stats : RLt(t.treated_improve_prob, RatOf(1))

\* C18: the rows run_placebo_test computes its statistics from are those of
\* the placebo outcomes: an event of a user with at least 20 earlier events of
\* the same user has the outcome (its own rating) - (rating of that user's
\* 20th earlier event), an event with fewer earlier events has no row, and
\* the outcome is determined by the event and the events before it.
EarlierEvents(c, e) == {x \in Range(features[c].events) : x.time < e.time}

\* the 20th of the earlier events of the same user, counted backwards
TwentiethEarlier(c, e) ==
    CHOOSE x \in EarlierEvents(c, e) :
        Cardinality({y \in EarlierEvents(c, e) : y.time > x.time}) = 19

ExpectedPlacebo ==
    UNION { { [c |-> c, time |-> e.time, n |-> features[c].users,
               task |-> e.task,
               gain |-> e.rating - TwentiethEarlier(c, e).rating]
              : e \in {x \in Range(features[c].events) :
                          Cardinality(EarlierEvents(c, x)) >= 20} }
            : c \in DOMAIN features }

C18_PlaceboOutcome ==
    ppc = "collected" =>
        LET rows == PlaceboOutcome(features)
            got == { [c |-> rows[k].c, time |-> rows[k].time, n |-> rows[k].n,
                      task |-> rows[k].task, gain |-> rows[k].gain]
                     : k \in DOMAIN rows }
        IN  /\ got = ExpectedPlacebo
            /\ Cardinality(got) = Len(rows)
            /\ \A k \in DOMAIN rows :
                  rows[k].improved = (IF rows[k].gain > 0 THEN 1 ELSE 0)

\* users whose file is not in time order, with events that have a 20th
\* earlier event, some with a positive outcome and some not, and events that
\* have none
C18_Witness ==
    /\ ppc = "collected"
    /\ \E c \in DOMAIN features :
          /\ \E i \in 1..(Len(features[c].events) - 1) :
                features[c].events[i].time > features[c].events[i + 1].time
          /\ \E e \in Range(features[c].events) :
                Cardinality(EarlierEvents(c, e)) < 20
    /\ \E o \in ExpectedPlacebo : o.gain > 0
    /\ \E o \in ExpectedPlacebo : o.gain <= 0

\* C19: every row of effect_df, the rows the ATT is aggregated from, has
\* baseline_count >= 50 and treated_count >= 50; a (task, stratum) group that
\* passed the pilot threshold with fewer than 50 treated rows has no row in
\* effect_df and its count is in no task's total.
C19_CountThresholds ==
    Collected =>
        /\ \A b \in baseline_stats : b.baseline_count >= MinSamples
        /\ \A t \in treatment_stats : t.treated_count >= PilotSamples
        /\ \A e \in effect_df :
              e.baseline_count >= MinSamples /\ e.treated_count >= MinSamples
        /\ \A t \in treatment_stats :
              t.treated_count < MinSamples =>
                  /\ ~\E e \in effect_df : e.task = t.task /\ e.key = t.key
                  /\ \A f \in final_effects :
                        f.task = t.task =>
                            LET strata ==
                                    SetToSeq({x \in treatment_stats :
                                        /\ x.task = t.task
                                        /\ x.treated_count >= MinSamples
                                        /\ \E e \in effect_df :
                                              e.task = x.task /\ e.key = x.key})
                            IN  f.total_treated_samples =
                                    SumSeq([i \in 1..Len(strata) |->
                                               strata[i].treated_count])

\* a task with one stratum between the two thresholds and another that
\* reaches the ATT
C19_Witness ==
    /\ Collected
    /\ \E t \in treatment_stats :
          /\ t.treated_count >= PilotSamples
          /\ t.treated_count < MinSamples
          /\ \E b \in baseline_stats : b.key = t.key
          /\ \E f \in final_effects : f.task = t.task

\* C20: every row of effect_df combines a row of treatment_stats with the row
\* of baseline_stats of exactly the same (bin_rating, bin_acc, bin_diff); a
\* (task, stratum) of treatment_stats whose stratum has no row in
\* baseline_stats has no row in effect_df, a stratum of baseline_stats with no
\* row in treatment_stats has none either, and neither case is an error.
C20_JoinOnEqualKey ==
    Collected =>
        /\ error = NoError
        /\ \A e \in effect_df :
              \E t \in treatment_stats :
                  \E b \in baseline_stats :
                      /\ t.task = e.task /\ t.key = e.key /\ b.key = e.key
                      /\ e.treated_count = t.treated_count
                      /\ e.treated_gain = t.treated_gain
                      /\ e.treated_std2 = t.treated_std2
                      /\ e.baseline_count = b.baseline_count
                      /\ e.baseline_gain = b.baseline_gain
                      /\ e.baseline_std2 = b.baseline_std2
        /\ \A t \in treatment_stats :
              (~\E b \in baseline_stats : b.key = t.key)
                  => ~\E e \in effect_df : e.task = t.task /\ e.key = t.key
        /\ \A b \in baseline_stats :
              (~\E t \in treatment_stats : t.key = b.key)
                  => ~\E e \in effect_df : e.key = b.key

\* a treated stratum without a baseline, a baseline stratum without a
\* treatment, and a joined stratum, in one run
C20_Witness ==
    /\ Collected
    /\ \E t \in treatment_stats : ~\E b \in baseline_stats : b.key = t.key
    /\ \E b \in baseline_stats : ~\E t \in treatment_stats : t.key = b.key
    /\ effect_df # {}

\* C21: every row of effect_df has uplift = treated_gain - baseline_gain,
\* bucket_variance = treated_std^2 / treated_count + baseline_std^2 /
\* baseline_count and probability_uplift = treated_improve_prob -
\* baseline_improve_prob, the treated values being those of the row of
\* treatment_stats of its task and stratum and the baseline values those of
\* the row of baseline_stats of the same stratum.
C21_EffectRecordValues ==
    Collected =>
        \A e \in effect_df :
            \E t \in treatment_stats :
                \E b \in baseline_stats :
                    /\ t.task = e.task /\ t.key = e.key /\ b.key = e.key
                    /\ REq(RAdd(e.uplift, b.baseline_gain), t.treated_gain)
                    /\ e.bucket_variance # Null
                    /\ REq(RMul(e.bucket_variance[1],
                                RatOf(t.treated_count * b.baseline_count)),
                           RAdd(RMul(t.treated_std2[1], RatOf(b.baseline_count)),
                                RMul(b.baseline_std2[1], RatOf(t.treated_count))))
                    /\ REq(RAdd(e.probability_uplift, b.baseline_improve_prob),
                           t.treated_improve_prob)

\* a record with a non-zero uplift, non-zero deviations on both sides and a
\* non-zero probability uplift
C21_Witness ==
    /\ Collected
    /\ \E e \in effect_df :
          /\ RSign(e.uplift) # 0
          /\ RSign(e.probability_uplift) # 0
          /\ RSign(e.treated_std2[1]) > 0
          /\ RSign(e.baseline_std2[1]) > 0
          /\ e.treated_count # e.baseline_count

\* the sum of the squared outcomes of a group, in units of 1/RatingDen^2
ExpectedSquareSum(group) ==
    LET s == SetToSeq(group)
    IN  RSumSeq([k \in 1..Len(s) |->
                    RMul(RatOf(s[k].n * s[k].outcome), RatOf(s[k].outcome))])

\* count, mean, squared deviation with divisor count - ddof, and mean
\* indicator of the outcomes of a group
StatsOfGroup(count, gain, std2, prob, group, ddof) ==
    /\ count = ExpectedCount(group)
    /\ REq(gain, Frac(ExpectedGainSum(group), RatingDen * count))
    /\ REq(prob, Frac(ExpectedImproved(group), count))
    /\ std2 # Null
    /\ REq(RMul(std2[1],
                RatOf((count - ddof) * count * RatingDen * RatingDen)),
           RSub(RMul(RatOf(count), ExpectedSquareSum(group)),
                RMul(RatOf(ExpectedGainSum(group)),
                     RatOf(ExpectedGainSum(group)))))

GroupStatsWith(ddof) ==
    pc = "tested" =>
        LET expected == ExpectedOutcomes
        IN  /\ \A t \in treatment_stats :
                  StatsOfGroup(t.treated_count, t.treated_gain, t.treated_std2,
                               t.treated_improve_prob,
                               {o \in expected : o.task = t.task /\ o.key = t.key},
                               ddof)
            /\ \A b \in baseline_stats :
                  StatsOfGroup(b.baseline_count, b.baseline_gain,
                               b.baseline_std2, b.baseline_improve_prob,
                               {o \in expected : o.key = b.key}, ddof)

\* C22: each baseline group (per stratum, over all events with an outcome)
\* and each treatment group (per task and stratum) has the mean of the
\* outcome, its population standard deviation (divisor = the group count),
\* the count of its events and the mean of the improved indicator.
C22_GroupStatsPopulation == GroupStatsWith(0)

\* C22: as amended, each group has the mean of the outcome, its sample
\* standard deviation (divisor = the group count - 1), the count of its
\* events and the mean of the improved indicator.
C22_GroupStatsSample == GroupStatsWith(StdDdof)

\* a treatment group and a baseline group whose outcomes differ within the
\* group
C22_Witness ==
    /\ pc = "tested"
    /\ \E t \in treatment_stats : RSign(t.treated_std2[1]) > 0
    /\ \E b \in baseline_stats : RSign(b.baseline_std2[1]) > 0

\* C23: in the placebo run a stratum's baseline_count is the number of events
\* with a backward outcome whose confounders map to the stratum, and the
\* stratum is kept as a baseline exactly when that number reaches the minimum
\* baseline sample count.
C23_PlaceboBaselineCount ==
    ppc = "collected" =>
        LET lf == PlaceboFrame(features, round_mode)
            kept == BaselinePlacebo(lf)
        IN  \A key \in {lf[k].key : k \in DOMAIN lf} :
                LET events == GroupCount(SelectSeq(lf, LAMBDA r : r.key = key))
                IN  /\ (events >= PlaceboMinBaseline)
                           <=> (\E b \in kept : b.key = key)
                    /\ \A b \in kept : b.key = key => b.baseline_count = events

\* the (task, stratum) groups of the placebo run that pass the thresholds:
\* enough treated events, enough events in the stratum, a bias within the cap
PlaceboSurvivors ==
    LET lf == PlaceboFrame(features, round_mode)
    IN  { t \in TreatedPlacebo(lf) :
            \E b \in BaselinePlaceboAgg(lf) :
                /\ KeysJoin(t.key, b.key)
                /\ GroupCount(SelectSeq(lf, LAMBDA r : r.key = b.key))
                      >= PlaceboMinBaseline
                /\ RLe(RAbs(RSub(t.treated_placebo_gain, b.baseline_placebo_gain)),
                       RatOf(PlaceboCap)) }

\* C24: the written bias table has exactly one row for each task with a
\* surviving placebo stratum, with total_samples the sum of treated_count and
\* bias_score the treated_count-weighted mean of selection_bias over the
\* task's surviving strata, and its rows are in non-increasing order of
\* bias_score.
C24_BiasTable ==
    ppc = "done" =>
        LET lf == PlaceboFrame(features, round_mode)
            survivors == PlaceboSurvivors
            rows == bias_file.rows
        IN  /\ {rows[k].task : k \in DOMAIN rows} = {t.task : t \in survivors}
            /\ Len(rows) = Cardinality({t.task : t \in survivors})
            /\ \A k \in DOMAIN rows :
                  LET strata == SetToSeq({e \in BiasDf(lf) : e.task = rows[k].task})
                      total == SumSeq([i \in 1..Len(strata) |->
                                          strata[i].treated_count])
                  IN  /\ rows[k].total_samples = total
                      /\ REq(RMul(rows[k].bias_score, RatOf(total)),
                             RSumSeq([i \in 1..Len(strata) |->
                                         RMul(strata[i].selection_bias,
                                              RatOf(strata[i].treated_count))]))
            /\ \A k \in 1..(Len(rows) - 1) :
                  RLe(rows[k + 1].bias_score, rows[k].bias_score)

\* b is an integer nearest to n / d (d > 0); strictly: the only such integer
Nearest(n, d, b, strictly) ==
    IF strictly THEN 2 * Abs(n - b * d) < d ELSE 2 * Abs(n - b * d) <= d

\* the stratum key is made of rounded values of the event e: the rating over
\* 100, the accuracy over 0.1 and the difficulty over 200, a NaN or infinite
\* difficulty counting as 0 and a missing value having no bucket
RoundsTo(e, key, strictly) ==
    /\ key[1] # Null /\ Nearest(e.rating, 100 * RatingDen, key[1][1], strictly)
    /\ IF e.acc = Null THEN key[2] = Null
       ELSE key[2] # Null /\ Nearest(e.acc[1] * 10, AccDen, key[2][1], strictly)
    /\ IF e.diff.kind = "null" THEN key[3] = Null
       ELSE /\ key[3] # Null
            /\ Nearest(IF e.diff.kind = "num" THEN e.diff.v ELSE 0, 200,
                       key[3][1], strictly)

\* the events that have a forward outcome, with their multiplicity
OutcomeEvents ==
    UNION { { [c |-> c, n |-> features[c].users, e |-> x]
              : x \in {y \in Range(features[c].events) :
                          Cardinality(LaterEvents(c, y)) >= 20} }
            : c \in DOMAIN features }

\* C25: every event is bucketed by rounding rating / 100, accuracy / 0.1 and
\* difficulty / 200 to the nearest integer, and events share a stratum exactly
\* when the three rounded values agree: a treatment group or a baseline
\* stratum counts every event whose values have the group's key as their only
\* nearest integers, and no event whose values do not round to the key.
C25_Bucketizer ==
    pc = "tested" =>
        LET events == OutcomeEvents
        IN  /\ \A t \in treatment_stats :
                  LET of_task == {o \in events : o.e.task = t.task}
                  IN  /\ ExpectedCount({o \in of_task :
                             RoundsTo(o.e, t.key, TRUE)})
                            <= t.treated_count
                      /\ t.treated_count
                            <= ExpectedCount({o \in of_task :
                                   RoundsTo(o.e, t.key, FALSE)})
            /\ \A b \in baseline_stats :
                  /\ ExpectedCount({o \in events :
                         RoundsTo(o.e, b.key, TRUE)})
                        <= b.baseline_count
                  /\ b.baseline_count
                        <= ExpectedCount({o \in events :
                               RoundsTo(o.e, b.key, FALSE)})

\* a stratum whose key is not the truncation of rating / 100, and one that
\* holds events of different ratings, have been aggregated
C25_Witness ==
    /\ pc = "tested"
    /\ \E b \in baseline_stats : \E o \in OutcomeEvents :
          /\ RoundsTo(o.e, b.key, TRUE)
          /\ b.key[1][1] * 100 * RatingDen > o.e.rating
    /\ \E b \in baseline_stats : \E o1, o2 \in OutcomeEvents :
          /\ RoundsTo(o1.e, b.key, TRUE)
          /\ RoundsTo(o2.e, b.key, TRUE)
          /\ o1.e.rating # o2.e.rating

\* the sum of treated_count over the treatment groups of a stratum
TreatedInStratum(key) ==
    LET groups == SetToSeq({t \in treatment_stats : t.key = key})
    IN  SumSeq([k \in 1..Len(groups) |-> groups[k].treated_count])

\* C26: the treated events are among the baseline's: every effect record has
\* baseline_count >= treated_count, and in every stratum the treated_count of
\* all the tasks' treatment groups together is at most the baseline_count.
C26_TreatedWithinBaseline ==
    Collected =>
        /\ \A e \in effect_df : e.baseline_count >= e.treated_count
        /\ \A b \in baseline_stats : TreatedInStratum(b.key) <= b.baseline_count

\* an effect record of a stratum shared by the treatment groups of two tasks,
\* which together make up the whole baseline of the stratum
C26_Witness ==
    /\ Collected
    /\ \E e \in effect_df : \E b \in baseline_stats :
          /\ b.key = e.key
          /\ e.treated_count < b.baseline_count
          /\ TreatedInStratum(b.key) = b.baseline_count
          /\ \E t \in treatment_stats : t.key = b.key /\ t.task # e.task

\* C27: the ATT of a task is a convex combination of the uplifts of its
\* surviving strata: it lies between the least and the greatest of them, and
\* so within the cap of 300 rating points.
C27_AttWithinHull ==
    Collected =>
        \A f \in final_effects :
            /\ \E e \in RowsOf(f.task) : RLe(e.uplift, f.att_score)
            /\ \E e \in RowsOf(f.task) : RLe(f.att_score, e.uplift)
            /\ RLe(RAbs(f.att_score), RatOf(MAX_ALLOWED_UPLIFT))

\* a task whose ATT lies strictly between the uplifts of two of its strata
C27_Witness ==
    /\ Collected
    /\ \E f \in final_effects : \E e1, e2 \in RowsOf(f.task) :
          RLt(e1.uplift, f.att_score) /\ RLt(f.att_score, e2.uplift)

\* C28: the probability uplift of a task is aggregated with the ATT weights:
\* att_probability_uplift is the treated_count-weighted mean of the strata's
\* probability_uplift, which is the sum of weight * probability_uplift, and it
\* lies in [-1, 1].
C28_AttProbabilityUplift ==
    Collected =>
        \A f \in final_effects :
            LET group == SetToSeq(RowsOf(f.task))
                total == SumSeq([k \in 1..Len(group) |-> group[k].treated_count])
            IN  /\ REq(RMul(f.att_probability_uplift, RatOf(total)),
                       RSumSeq([k \in 1..Len(group) |->
                                   RMul(RSub(group[k].treated_improve_prob,
                                             group[k].baseline_improve_prob),
                                        RatOf(group[k].treated_count))]))
                /\ REq(f.att_probability_uplift,
                       RSumSeq([k \in 1..Len(group) |->
                                   RMul(Frac(group[k].treated_count, total),
                                        RSub(group[k].treated_improve_prob,
                                             group[k].baseline_improve_prob))]))
                /\ \A k \in 1..Len(group) :
                      REq(group[k].weight, Frac(group[k].treated_count, total))
                /\ RLe(RAbs(f.att_probability_uplift), RatOf(1))

\* a task with strata of different sizes and different probability uplifts
C28_Witness ==
    /\ Collected
    /\ \E f \in final_effects : \E e1, e2 \in RowsOf(f.task) :
          /\ e1.treated_count # e2.treated_count
          /\ ~REq(e1.probability_uplift, e2.probability_uplift)
          /\ RSign(f.att_probability_uplift) # 0

\* the rows of the written detailed table of one task
DetailedOf(task) == {e \in detailed_file.rows : e.task = task}

\* C29: the detailed table is written after the ATT table and holds exactly
\* the effect records (those that passed the count and cap filters) of the
\* tasks of the written ATT table; every task of the ATT table has a detailed
\* row, and its detailed rows' treated_count add up to its
\* total_treated_samples.
C29_DetailedTable ==
    /\ detailed_file.exists => att_file.exists /\ pc = "done"
    /\ pc = "done" =>
          /\ detailed_file.exists
          /\ detailed_file.rows = {e \in effect_df : e.task \in AttTasks}
          /\ \A k \in DOMAIN att_file.rows :
                LET rows == SetToSeq(DetailedOf(att_file.rows[k].task))
                IN  /\ Len(rows) >= 1
                    /\ SumSeq([i \in 1..Len(rows) |-> rows[i].treated_count])
                          = att_file.rows[k].total_treated_samples

\* a written detailed table with two strata of one task, which leaves out the
\* effect records of a task that is not in the ATT table
C29_Witness ==
    /\ pc = "done"
    /\ \E e1, e2 \in detailed_file.rows : e1.task = e2.task /\ e1.key # e2.key
    /\ \E e \in effect_df : e.task \notin AttTasks

\* two per-task records of opposite or equal att_score and equal att_variance
Mirrored(f, g) ==
    /\ REq(RAbs(f.att_score), RAbs(g.att_score))
    /\ REq(f.att_variance, g.att_variance)

\* C30: the significance test is symmetric in the sign of att_score: of two
\* tasks with the same |att_score| and the same att_variance either both are
\* in the written ATT table or neither is; a task with a significantly
\* negative ATT is kept in the table, below every task with a positive one.
C30_SignSymmetry ==
    Written =>
        /\ \A f, g \in final_effects :
              Mirrored(f, g) => (f.task \in AttTasks <=> g.task \in AttTasks)
        /\ \A f \in final_effects :
              (RSign(f.att_score) < 0 /\ BeyondQuantile(f, <<1, 100>>))
                  => f.task \in AttTasks
        /\ \A j, k \in DOMAIN att_file.rows :
              (/\ RSign(att_file.rows[j].att_score) < 0
               /\ RSign(att_file.rows[k].att_score) >= 0) => k < j

\* tasks of opposite ATT and equal variance, both retained with the negative
\* one last
C30_Witness ==
    /\ Written
    /\ \E f, g \in final_effects :
          /\ Mirrored(f, g)
          /\ RSign(f.att_score) > 0 /\ RSign(g.att_score) < 0
          /\ {f.task, g.task} \subseteq AttTasks
          /\ att_file.rows[Len(att_file.rows)].task = g.task

\* tasks of opposite ATT and equal variance, neither of them retained
C30_WitnessNeither ==
    /\ Written
    /\ \E f, g \in final_effects :
          /\ Mirrored(f, g)
          /\ RSign(f.att_score) > 0 /\ RSign(g.att_score) < 0
          /\ f.task \notin AttTasks /\ g.task \notin AttTasks

=========================================================================
